---- MODULE Spec2Model ----
(***************************************************************************)
(* Model of cinder/coordination.py: the Coordinator (connection lifecycle, *)
(* heartbeat loop, reconnection with jittered backoff) and the             *)
(* synchronized() decorator.                                               *)
(*                                                                         *)
(* Threads: the caller of start()/stop(), the heartbeat thread spawned by  *)
(* start(), and the threads invoking functions wrapped by synchronized().  *)
(* One action is one statement of the source that reads or writes shared   *)
(* state; the suffix of an action name is its source line.                 *)
(*                                                                         *)
(* The tooz backend is the environment: get_coordinator(), start() and     *)
(* heartbeat() succeed or raise nondeterministically; a tooz lock is a     *)
(* mutex keyed by its name; Lock.__enter__ raises LockAcquireFailed when   *)
(* acquire() returns False.                                                *)
(***************************************************************************)
EXTENDS Integers, Sequences, FiniteSets, TLC

\* ---------------------------------------------------------------- bounds
MaxStarts == 2      \* start() calls that get past the `started` check
MaxConnects == 2    \* successful backend connections
MaxBase == 2        \* largest initial_reconnect_backoff
MaxCap == 4         \* largest max_reconnect_backoff

\* ---------------------------------------------------------------- values
NoneH == 0          \* self.coordinator = None
UnstartedH == 0 - 1 \* an object returned by get_coordinator() whose start()
                    \* has not succeeded (all such objects look alike)
Handles == 1..MaxConnects   \* objects whose start() succeeded, in order
Events == 1..MaxStarts      \* threading.Event objects, in creation order
Loops == 1..MaxStarts       \* heartbeat threads, in spawn order
Callers == {1, 2}           \* the contexts that may call start() and stop()
Main == {1}                 \* the service's own context

Invokers == {1, 2}          \* threads calling synchronized functions

NoResume == [h |-> 0, d |-> 0, sent |-> FALSE]

Min(a, b) == IF a <= b THEN a ELSE b
Max(a, b) == IF a >= b THEN a ELSE b

\* ------------------------------------------------ lock names (strings)
\* A str is a sequence of characters, a bytes object a sequence of codes.
Prefix == <<"c", "i", "n", "d", "e", "r", "-">>   \* COORDINATOR's prefix

\* the ASCII code of a character
Ascii(ch) ==
    CASE ch = "-" -> 45
      [] ch = "c" -> 99
      [] ch = "d" -> 100
      [] ch = "e" -> 101
      [] ch = "f" -> 102
      [] ch = "g" -> 103
      [] ch = "i" -> 105
      [] ch = "m" -> 109
      [] ch = "n" -> 110
      [] ch = "r" -> 114

\* str.encode('ascii')
Encode(s) == [k \in 1..Len(s) |-> Ascii(s[k])]

\* line 114 with the name left out
LockName_PrefixOnly(name) == Encode(Prefix)

\* line 114: lock_name = (self.prefix + name).encode('ascii')
LockName(name) == Encode(Prefix \o name)

\* the decorated functions, the values of their parameter `a`, the
\* lock_name templates (a sequence of replacement fields and literal
\* characters) and the `blocking` arguments used with synchronized()
Ops == {<<"f">>, <<"g">>}
Args == {<<"f">>}
Templates == {<<"{f_name}">>, <<"m", "{a}">>}
Blocking == {"True", "False", "timeout"}

\* lines 225-226: call_args = getcallargs(f, *a, **k) plus f_name
CallArgs(f, a) == [f_name |-> f, a |-> a]

\* str.format(**call_args): replace each field by the argument's value
RECURSIVE Format(_, _)
Format(t, ca) ==
    IF t = <<>> THEN <<>>
    ELSE LET tok == Head(t)
             val == IF tok = "{f_name}" THEN ca.f_name
                    ELSE IF tok = "{a}" THEN ca.a
                    ELSE <<tok>>
         IN val \o Format(Tail(t), ca)

ResolvedNames ==
    {Format(t, CallArgs(f, a)) : t \in Templates, f \in Ops, a \in Args}
LockNames == {LockName(n) : n \in ResolvedNames}

VARIABLES
    \* Coordinator fields
    coordinator,    \* self.coordinator: NoneH, UnstartedH or a handle
    started,        \* self.started
    dead,           \* self._dead: 0 (None) or an Event
    ev,             \* self._ev: 0 (None) or a heartbeat thread
    \* objects the fields point to, and the configuration
    evSet,          \* evSet[e]: the flag of Event e
    hstate,         \* hstate[h]: "unused", "started" or "stopped"
    requires_beating,   \* the backend driver's requires_beating
    base,           \* CONF.coordination.initial_reconnect_backoff
    cap,            \* CONF.coordination.max_reconnect_backoff
    \* the caller of start()/stop()
    cpc,            \* position in start()/stop(), "idle" between calls
    cres,           \* how the last completed call ended
    \* the heartbeat threads
    lpc,            \* position in heartbeat()/_reconnect(), "none" = not spawned
    lh,             \* the object loaded from self.coordinator for heartbeat()
    backoff,        \* _reconnect's local `backoff`, 0 outside _reconnect
    \* the threads calling functions wrapped by synchronized()
    ipc,            \* position in _synchronized, "idle" between calls
    iop,            \* f.__name__ of the call in progress
    iname,          \* lock_name.format(**call_args)
    ilock,          \* lock.name: the byte string given to the backend
    iblk,           \* the decorator's `blocking` argument
    iacq,           \* what acquire() did: "none", "acquired" or "failed"
    ires,           \* how f ended: "none", "returned" or "raised"
    iout,           \* how the last completed call of the wrapper ended
    \* the backend's lock table
    holder,         \* holder[n]: the thread holding lock n, 0 when free
    nacq,           \* nacq[i]: acquire() calls of i's current or last call
    nrel,           \* nrel[i]: release() calls of i's current or last call
    stolen,         \* some release() was made by a thread not holding the lock
    \* observers
    stopReturned,   \* a stop() that did the work has returned, no start() since
    lateSignal,     \* a heartbeat was sent while stopReturned
    cfail,          \* the backend raised ToozError in the caller's last start()
    woken,          \* woken[l]: the wait of line 174 returned with the flag set
    hbFailed,       \* hbFailed[l]: a heartbeat of thread l raised ToozError
    resume          \* resume[l]: the object _reconnect connected (h, 0 for
                    \* none), the shutdown flag of that time (d) and
                    \* whether a heartbeat was sent on the object since

coordVars == <<coordinator, started, dead, ev, evSet, hstate,
               requires_beating, base, cap>>
callerVars == <<cpc, cres>>
loopVars == <<lpc, lh, backoff>>
syncObs == <<nacq, nrel, stolen>>
syncVars == <<ipc, iop, iname, ilock, iblk, iacq, ires, iout, holder, syncObs>>
hbObs == <<woken, hbFailed, resume>>
obsVars == <<stopReturned, lateSignal, cfail, hbObs>>
vars == <<coordVars, callerVars, loopVars, syncVars, obsVars>>

\* ------------------------------------------------- Coordinator.__init__
CoordinatorInit ==
    /\ coordinator = NoneH
    /\ started = FALSE
    /\ dead = 0
    /\ ev = 0
    /\ evSet = [e \in Events |-> FALSE]
    /\ hstate = [h \in Handles |-> "unused"]

ConfInit ==
    /\ requires_beating \in BOOLEAN
    /\ base \in 1..MaxBase
    /\ cap \in base..MaxCap

Init ==
    /\ CoordinatorInit
    /\ ConfInit
    /\ cpc = [c \in Callers |-> "idle"]
    /\ cres = [c \in Callers |-> "none"]
    /\ lpc = [l \in Loops |-> "none"]
    /\ lh = [l \in Loops |-> NoneH]
    /\ backoff = [l \in Loops |-> 0]
    /\ ipc = [i \in Invokers |-> "idle"]
    /\ iop = [i \in Invokers |-> <<>>]
    /\ iname = [i \in Invokers |-> <<>>]
    /\ ilock = [i \in Invokers |-> <<>>]
    /\ iblk = [i \in Invokers |-> "none"]
    /\ iacq = [i \in Invokers |-> "none"]
    /\ ires = [i \in Invokers |-> "none"]
    /\ iout = [i \in Invokers |-> "none"]
    /\ holder = [n \in LockNames |-> 0]
    /\ nacq = [i \in Invokers |-> 0]
    /\ nrel = [i \in Invokers |-> 0]
    /\ stolen = FALSE
    /\ stopReturned = FALSE
    /\ lateSignal = FALSE
    /\ cfail = [c \in Callers |-> FALSE]
    /\ woken = [l \in Loops |-> FALSE]
    /\ hbFailed = [l \in Loops |-> FALSE]
    /\ resume = [l \in Loops |-> NoResume]

\* --------------------------------------------------- Coordinator._start
\* line 143-144: self.coordinator = coordination.get_coordinator(...)
GetCoordinatorOk == coordinator' = UnstartedH

\* the next unused handle, or NoneH when MaxConnects connections were made
FreshHandle ==
    IF \E h \in Handles : hstate[h] = "unused"
    THEN CHOOSE h \in Handles :
            /\ hstate[h] = "unused"
            /\ \A g \in Handles : hstate[g] = "unused" => h <= g
    ELSE NoneH

\* line 145: self.coordinator.start() returns normally
CanConnect == coordinator = UnstartedH /\ FreshHandle # NoneH
ConnectOk ==
    /\ coordinator' = FreshHandle
    /\ hstate' = [hstate EXCEPT ![FreshHandle] = "started"]

\* ---------------------------------------------------- Coordinator.start
\* the Event objects made so far and those the calls now at line 83 will make
EventsDue == dead + Cardinality({k \in Callers : cpc[k] = "start83"})

\* line 81 without the `started` check
Start81_NoCheck(c) ==
    /\ cpc[c] = "idle"
    /\ EventsDue < MaxStarts
    /\ cpc' = [cpc EXCEPT ![c] = "start83"]
    /\ cres' = [cres EXCEPT ![c] = "none"]
    /\ stopReturned' = FALSE
    /\ cfail' = [cfail EXCEPT ![c] = FALSE]
    /\ UNCHANGED <<coordVars, loopVars, lateSignal, hbObs, syncVars>>

Start81(c) ==
    /\ cpc[c] = "idle"
    /\ IF ~started
       THEN /\ EventsDue < MaxStarts
            /\ cpc' = [cpc EXCEPT ![c] = "start83"]
            /\ cres' = [cres EXCEPT ![c] = "none"]
            /\ stopReturned' = FALSE
       ELSE /\ cres' = [cres EXCEPT ![c] = "start_noop"]
            /\ UNCHANGED <<cpc, stopReturned>>
    /\ cfail' = [cfail EXCEPT ![c] = FALSE]
    /\ UNCHANGED <<coordVars, loopVars, lateSignal, hbObs, syncVars>>

Start83(c) ==
    /\ cpc[c] = "start83"
    /\ dead' = dead + 1
    /\ evSet' = [evSet EXCEPT ![dead + 1] = FALSE]
    /\ cpc' = [cpc EXCEPT ![c] = "start143"]
    /\ UNCHANGED <<coordinator, started, ev, hstate, requires_beating, base,
                   cap, cres, loopVars, obsVars, syncVars>>

\* lines 91-93 with the exception logged and swallowed
StartRaise_Swallow(c) ==
    /\ cpc' = [cpc EXCEPT ![c] = "start85"]
    /\ UNCHANGED cres

\* lines 91-93: except ToozError: LOG.exception(...); raise
StartRaise(c) ==
    /\ cpc' = [cpc EXCEPT ![c] = "idle"]
    /\ cres' = [cres EXCEPT ![c] = "start_ToozError"]

Start143(c) ==
    /\ cpc[c] = "start143"
    /\ \/ /\ GetCoordinatorOk
          /\ cpc' = [cpc EXCEPT ![c] = "start145"]
          /\ UNCHANGED cres
          /\ UNCHANGED cfail
       \/ /\ StartRaise(c)
          /\ cfail' = [cfail EXCEPT ![c] = TRUE]
          /\ UNCHANGED coordinator
    /\ UNCHANGED <<started, dead, ev, evSet, hstate, requires_beating, base,
                   cap, loopVars, stopReturned, lateSignal, hbObs, syncVars>>

Start145(c) ==
    /\ cpc[c] = "start145"
    /\ \/ /\ CanConnect
          /\ ConnectOk
          /\ cpc' = [cpc EXCEPT ![c] = "start85"]
          /\ UNCHANGED cres
          /\ UNCHANGED cfail
       \/ /\ StartRaise(c)
          /\ cfail' = [cfail EXCEPT ![c] = TRUE]
          /\ UNCHANGED <<coordinator, hstate>>
    /\ UNCHANGED <<started, dead, ev, evSet, requires_beating, base, cap,
                   loopVars, stopReturned, lateSignal, hbObs, syncVars>>

Start85(c) ==
    /\ cpc[c] = "start85"
    /\ started' = TRUE
    /\ cpc' = [cpc EXCEPT ![c] = "start88"]
    /\ UNCHANGED <<coordinator, dead, ev, evSet, hstate, requires_beating,
                   base, cap, cres, loopVars, obsVars, syncVars>>

\* the thread eventlet.spawn creates next
NextLoop == CHOOSE l \in Loops :
                /\ lpc[l] = "none"
                /\ \A m \in Loops : lpc[m] = "none" => l <= m

\* line 88 without its condition: the thread is spawned for every backend
Start88_AlwaysSpawn(c) ==
    /\ cpc[c] = "start88"
    /\ ev' = NextLoop
    /\ lpc' = [lpc EXCEPT ![NextLoop] = "while132"]
    /\ cpc' = [cpc EXCEPT ![c] = "idle"]
    /\ cres' = [cres EXCEPT ![c] = "start_ok"]
    /\ UNCHANGED <<coordinator, started, dead, evSet, hstate,
                   requires_beating, base, cap, lh, backoff, obsVars, syncVars>>

\* lines 88-94: spawn the heartbeat thread if the backend needs one, return
Start88(c) ==
    /\ cpc[c] = "start88"
    /\ IF coordinator # NoneH /\ requires_beating
       THEN /\ ev' = NextLoop
            /\ lpc' = [lpc EXCEPT ![NextLoop] = "while132"]
       ELSE UNCHANGED <<ev, lpc>>
    /\ cpc' = [cpc EXCEPT ![c] = "idle"]
    /\ cres' = [cres EXCEPT ![c] = "start_ok"]
    /\ UNCHANGED <<coordinator, started, dead, evSet, hstate,
                   requires_beating, base, cap, lh, backoff, obsVars, syncVars>>

\* ----------------------------------------------------- Coordinator.stop
Stop98(c) ==
    /\ cpc[c] = "idle"
    /\ IF started
       THEN /\ cpc' = [cpc EXCEPT ![c] = "stop99"]
            /\ cres' = [cres EXCEPT ![c] = "none"]
       ELSE /\ cres' = [cres EXCEPT ![c] = "stop_noop"]
            /\ UNCHANGED cpc
    /\ cfail' = [cfail EXCEPT ![c] = FALSE]
    /\ UNCHANGED <<coordVars, loopVars, stopReturned, lateSignal, hbObs,
                   syncVars>>

\* coordinator.stop() of the backend: stops a started object; on an object
\* that is not started (never started, or stopped already) it raises
\* ToozError; on None the attribute lookup raises AttributeError
StopOutcome ==
    IF coordinator = NoneH THEN "AttributeError"
    ELSE IF coordinator \in Handles /\ hstate[coordinator] = "started"
    THEN "ok"
    ELSE "ToozError"

\* line 99: self.coordinator.stop(); an exception leaves stop() at once,
\* with started, _dead, _ev and coordinator as they were
Stop99(c) ==
    /\ cpc[c] = "stop99"
    /\ IF StopOutcome = "ok"
       THEN /\ hstate' = [hstate EXCEPT ![coordinator] = "stopped"]
            /\ cpc' = [cpc EXCEPT ![c] = "stop100"]
            /\ UNCHANGED cres
       ELSE /\ cpc' = [cpc EXCEPT ![c] = "idle"]
            /\ cres' = [cres EXCEPT ![c] = "stop_" \o StopOutcome]
            /\ UNCHANGED hstate
    /\ UNCHANGED <<coordinator, started, dead, ev, evSet, requires_beating,
                   base, cap, loopVars, obsVars, syncVars>>

Stop100(c) ==
    /\ cpc[c] = "stop100"
    /\ evSet' = [evSet EXCEPT ![dead] = TRUE]
    /\ cpc' = [cpc EXCEPT ![c] = "stop101"]
    /\ UNCHANGED <<coordinator, started, dead, ev, hstate, requires_beating,
                   base, cap, cres, loopVars, obsVars, syncVars>>

\* lines 101-102 without the wait
EvWaitDone_NoWait == TRUE

\* lines 101-102: self._ev.wait() returns when the heartbeat thread has ended
EvWaitDone == ev # 0 => lpc[ev] = "exited"

Stop101(c) ==
    /\ cpc[c] = "stop101"
    /\ EvWaitDone
    /\ cpc' = [cpc EXCEPT ![c] = "stop103"]
    /\ UNCHANGED <<coordVars, cres, loopVars, obsVars, syncVars>>

Stop103(c) ==
    /\ cpc[c] = "stop103"
    /\ ev' = 0
    /\ cpc' = [cpc EXCEPT ![c] = "stop104"]
    /\ UNCHANGED <<coordinator, started, dead, evSet, hstate,
                   requires_beating, base, cap, cres, loopVars, obsVars, syncVars>>

Stop104(c) ==
    /\ cpc[c] = "stop104"
    /\ coordinator' = NoneH
    /\ cpc' = [cpc EXCEPT ![c] = "stop105"]
    /\ UNCHANGED <<started, dead, ev, evSet, hstate, requires_beating, base,
                   cap, cres, loopVars, obsVars, syncVars>>

Stop105(c) ==
    /\ cpc[c] = "stop105"
    /\ started' = FALSE
    /\ cpc' = [cpc EXCEPT ![c] = "idle"]
    /\ cres' = [cres EXCEPT ![c] = "stop_ok"]
    /\ stopReturned' = TRUE
    /\ UNCHANGED <<coordinator, dead, ev, evSet, hstate, requires_beating,
                   base, cap, loopVars, lateSignal, cfail, hbObs, syncVars>>

Lifecycle(c) ==
    \/ Start81(c) \/ Start83(c) \/ Start143(c) \/ Start145(c)
    \/ Start85(c) \/ Start88(c)
    \/ Stop98(c) \/ Stop99(c) \/ Stop100(c) \/ Stop101(c)
    \/ Stop103(c) \/ Stop104(c) \/ Stop105(c)

\* ------------------------------------------------ Coordinator.heartbeat
\* line 132: while self.coordinator is not None and not self._dead.is_set()
LoopCond == coordinator # NoneH /\ ~evSet[dead]

Loop132(l) ==
    /\ lpc[l] = "while132"
    /\ lpc' = [lpc EXCEPT ![l] = IF LoopCond THEN "hb149" ELSE "exited"]
    /\ UNCHANGED <<coordVars, callerVars, lh, backoff, obsVars, syncVars>>

\* line 149, first half: evaluate self.coordinator (AttributeError on None
\* is not a ToozError: it ends the thread)
Loop149Load(l) ==
    /\ lpc[l] = "hb149"
    /\ lh' = [lh EXCEPT ![l] = coordinator]
    /\ lpc' = [lpc EXCEPT ![l] =
                 IF coordinator = NoneH THEN "crashed" ELSE "hb149call"]
    /\ UNCHANGED <<coordVars, callerVars, backoff, obsVars, syncVars>>

\* line 149, second half: .heartbeat() is sent and returns or raises;
\* lines 150-158 and 133-138: success and ToozError go to the wait of line
\* 138, ToozConnectionError enters _reconnect (lines 162-164)
HeartbeatOutcomes == {"ok", "ToozError", "ToozConnectionError"}

\* what the observers record of a heartbeat() call that ended with r
HeartbeatObserved(l, r) ==
    /\ lateSignal' = (lateSignal \/ stopReturned)
    /\ hbFailed' = [hbFailed EXCEPT ![l] = @ \/ r = "ToozError"]
    /\ resume' = [resume EXCEPT ![l] =
                    IF @.h # 0 /\ @.h = lh[l] THEN [@ EXCEPT !.sent = TRUE]
                    ELSE @]
    /\ UNCHANGED <<stopReturned, cfail, woken>>

\* lines 155-157 without the except clause: ToozError ends the thread
Loop149Call_ErrorEnds(l) ==
    /\ lpc[l] = "hb149call"
    /\ \E r \in HeartbeatOutcomes :
        /\ IF r = "ToozConnectionError"
           THEN /\ lpc' = [lpc EXCEPT ![l] = "rc143"]
                /\ backoff' = [backoff EXCEPT ![l] = base]
           ELSE /\ lpc' = [lpc EXCEPT ![l] =
                            IF r = "ToozError" THEN "exited" ELSE "wait138"]
                /\ UNCHANGED backoff
        /\ HeartbeatObserved(l, r)
    /\ lh' = [lh EXCEPT ![l] = NoneH]
    /\ UNCHANGED <<coordVars, callerVars, syncVars>>

Loop149Call(l) ==
    /\ lpc[l] = "hb149call"
    /\ \E r \in HeartbeatOutcomes :
        /\ IF r = "ToozConnectionError"
           THEN /\ lpc' = [lpc EXCEPT ![l] = "rc143"]
                /\ backoff' = [backoff EXCEPT ![l] = base]
           ELSE /\ lpc' = [lpc EXCEPT ![l] = "wait138"]
                /\ UNCHANGED backoff
        /\ HeartbeatObserved(l, r)
    /\ lh' = [lh EXCEPT ![l] = NoneH]
    /\ UNCHANGED <<coordVars, callerVars, syncVars>>

\* line 138: self._dead.wait(heartbeat) returns, by the flag or by timeout
Loop138(l) ==
    /\ lpc[l] = "wait138"
    /\ lpc' = [lpc EXCEPT ![l] = "while132"]
    /\ UNCHANGED <<coordVars, callerVars, lh, backoff, obsVars, syncVars>>

\* ----------------------------------------------- Coordinator._reconnect
\* random.uniform(a, b): any value between a and b
Uniform(a, b) == Min(a, b)..Max(a, b)

\* line 170 without the cap
NextBackoff_NoCap(bk) == Uniform(base, bk * 3)

\* line 170: min(cap, random.uniform(base, backoff * 3))
NextBackoff(bk) == {Min(cap, u) : u \in Uniform(base, bk * 3)}

Reconnect143(l) ==
    /\ lpc[l] = "rc143"
    /\ \/ /\ GetCoordinatorOk
          /\ lpc' = [lpc EXCEPT ![l] = "rc145"]
       \/ /\ lpc' = [lpc EXCEPT ![l] = "rc170"]
          /\ UNCHANGED coordinator
    /\ UNCHANGED <<started, dead, ev, evSet, hstate, requires_beating, base,
                   cap, callerVars, lh, backoff, obsVars, syncVars>>

\* line 145 from _reconnect: on success `break`, line 175, back to line 132
\* line 168 as `return` out of heartbeat(): the thread ends once reconnected
Reconnect145_NoResume(l) ==
    /\ lpc[l] = "rc145"
    /\ \/ /\ CanConnect
          /\ ConnectOk
          /\ lpc' = [lpc EXCEPT ![l] = "exited"]
          /\ backoff' = [backoff EXCEPT ![l] = 0]
          /\ woken' = [woken EXCEPT ![l] = FALSE]
          /\ resume' = [resume EXCEPT ![l] = [h |-> FreshHandle, d |-> dead,
                                               sent |-> FALSE]]
       \/ /\ lpc' = [lpc EXCEPT ![l] = "rc170"]
          /\ UNCHANGED <<coordinator, hstate, backoff, woken, resume>>
    /\ UNCHANGED <<started, dead, ev, evSet, requires_beating, base, cap,
                   callerVars, lh, stopReturned, lateSignal, cfail, hbFailed,
                   syncVars>>

Reconnect145(l) ==
    /\ lpc[l] = "rc145"
    /\ \/ /\ CanConnect
          /\ ConnectOk
          /\ lpc' = [lpc EXCEPT ![l] = "while132"]
          /\ backoff' = [backoff EXCEPT ![l] = 0]
          /\ woken' = [woken EXCEPT ![l] = FALSE]
          /\ resume' = [resume EXCEPT ![l] = [h |-> FreshHandle, d |-> dead,
                                               sent |-> FALSE]]
       \/ /\ lpc' = [lpc EXCEPT ![l] = "rc170"]
          /\ UNCHANGED <<coordinator, hstate, backoff, woken, resume>>
    /\ UNCHANGED <<started, dead, ev, evSet, requires_beating, base, cap,
                   callerVars, lh, stopReturned, lateSignal, cfail, hbFailed,
                   syncVars>>

Reconnect170(l) ==
    /\ lpc[l] = "rc170"
    /\ \E b \in NextBackoff(backoff[l]) :
          backoff' = [backoff EXCEPT ![l] = b]
    /\ lpc' = [lpc EXCEPT ![l] = "rc174"]
    /\ UNCHANGED <<coordVars, callerVars, lh, obsVars, syncVars>>

\* line 174: self._dead.wait(backoff) returns, then the next attempt
Reconnect174(l) ==
    /\ lpc[l] = "rc174"
    /\ lpc' = [lpc EXCEPT ![l] = "rc143"]
    /\ woken' = [woken EXCEPT ![l] = evSet[dead]]
    /\ UNCHANGED <<coordVars, callerVars, lh, backoff, stopReturned,
                   lateSignal, cfail, hbFailed, resume, syncVars>>

Heartbeat(l) ==
    \/ Loop132(l) \/ Loop149Load(l) \/ Loop149Call(l) \/ Loop138(l)
    \/ Reconnect143(l) \/ Reconnect145(l) \/ Reconnect170(l)
    \/ Reconnect174(l)

\* ------------------------------------------------- Coordinator.get_lock
\* line 115: if self.coordinator is not None
GetLock115 == coordinator # NoneH

\* line 116: self.coordinator.get_lock(lock_name); on None the attribute
\* lookup raises AttributeError
GetLock116 == IF coordinator = NoneH THEN "AttributeError" ELSE "lock"

\* ------------------------------------------- synchronized._synchronized
\* the wrapper ends: the per-call locals go away, the outcome stays
SyncEnd(i, out) ==
    /\ ipc' = [ipc EXCEPT ![i] = "idle"]
    /\ iout' = [iout EXCEPT ![i] = out]
    /\ iop' = [iop EXCEPT ![i] = <<>>]
    /\ iname' = [iname EXCEPT ![i] = <<>>]
    /\ ilock' = [ilock EXCEPT ![i] = <<>>]
    /\ iblk' = [iblk EXCEPT ![i] = "none"]

\* lines 225-227 up to get_lock's line 115; LockCreationFailed is raised
\* before the try statement, so the finally block does not run
Sync227(i) ==
    /\ ipc[i] = "idle"
    /\ \E f \in Ops, a \in Args, t \in Templates, b \in Blocking :
        LET name == Format(t, CallArgs(f, a)) IN
        IF GetLock115
        THEN /\ ipc' = [ipc EXCEPT ![i] = "getlock116"]
             /\ iop' = [iop EXCEPT ![i] = f]
             /\ iname' = [iname EXCEPT ![i] = name]
             /\ ilock' = [ilock EXCEPT ![i] = LockName(name)]
             /\ iblk' = [iblk EXCEPT ![i] = b]
             /\ iout' = [iout EXCEPT ![i] = "none"]
        ELSE SyncEnd(i, "LockCreationFailed")
    /\ iacq' = [iacq EXCEPT ![i] = "none"]
    /\ ires' = [ires EXCEPT ![i] = "none"]
    /\ nacq' = [nacq EXCEPT ![i] = 0]
    /\ nrel' = [nrel EXCEPT ![i] = 0]
    /\ UNCHANGED <<coordVars, callerVars, loopVars, holder, stolen, obsVars>>

Sync116(i) ==
    /\ ipc[i] = "getlock116"
    /\ IF GetLock116 = "lock"
       THEN /\ ipc' = [ipc EXCEPT ![i] = "with231"]
            /\ UNCHANGED <<iop, iname, ilock, iblk, iout>>
       ELSE SyncEnd(i, "AttributeError")
    /\ UNCHANGED <<coordVars, callerVars, loopVars, iacq, ires, holder,
                   syncObs, obsVars>>

\* Lock.acquire(blocking) of the backend: TRUE when the lock was free and is
\* now held; FALSE when it is held and the policy gives up (blocking=False,
\* or a timeout that expired); blocking=True waits
AcquireResults(i) ==
    IF holder[ilock[i]] = 0 THEN {TRUE}
    ELSE IF iblk[i] = "True" THEN {}
    ELSE {FALSE}

\* line 231 without the acquisition: the body is entered at once
Sync231_NoAcquire(i) ==
    /\ ipc[i] = "with231"
    /\ iacq' = [iacq EXCEPT ![i] = "acquired"]
    /\ ipc' = [ipc EXCEPT ![i] = "body238"]
    /\ UNCHANGED <<coordVars, callerVars, loopVars, iop, iname, ilock, iblk,
                   ires, iout, holder, syncObs, obsVars>>

\* line 231 with a failed acquisition ignored: the body runs anyway
Sync231_IgnoreFailure(i) ==
    /\ ipc[i] = "with231"
    /\ \E ok \in AcquireResults(i) :
        /\ iacq' = [iacq EXCEPT ![i] = IF ok THEN "acquired" ELSE "failed"]
        /\ holder' = IF ok THEN [holder EXCEPT ![ilock[i]] = i] ELSE holder
    /\ ipc' = [ipc EXCEPT ![i] = "body238"]
    /\ nacq' = [nacq EXCEPT ![i] = @ + 1]
    /\ UNCHANGED <<coordVars, callerVars, loopVars, iop, iname, ilock, iblk,
                   ires, iout, nrel, stolen, obsVars>>

\* line 231: with lock(blocking): __enter__ acquires or raises
\* LockAcquireFailed, which leaves the try statement through finally
Sync231(i) ==
    /\ ipc[i] = "with231"
    /\ \E ok \in AcquireResults(i) :
        IF ok
        THEN /\ holder' = [holder EXCEPT ![ilock[i]] = i]
             /\ iacq' = [iacq EXCEPT ![i] = "acquired"]
             /\ ipc' = [ipc EXCEPT ![i] = "body238"]
        ELSE /\ iacq' = [iacq EXCEPT ![i] = "failed"]
             /\ ipc' = [ipc EXCEPT ![i] = "finally240"]
             /\ UNCHANGED holder
    /\ nacq' = [nacq EXCEPT ![i] = @ + 1]
    /\ UNCHANGED <<coordVars, callerVars, loopVars, iop, iname, ilock, iblk,
                   ires, iout, nrel, stolen, obsVars>>

\* line 238: f(*a, **k) runs while ipc = "body238" and returns or raises
BodyResults == {"returned", "raised"}

Sync238(i) ==
    /\ ipc[i] = "body238"
    /\ \E r \in BodyResults : ires' = [ires EXCEPT ![i] = r]
    /\ ipc' = [ipc EXCEPT ![i] = "exit231"]
    /\ UNCHANGED <<coordVars, callerVars, loopVars, iop, iname, ilock, iblk,
                   iacq, iout, holder, syncObs, obsVars>>

\* Lock.release() of the backend, called by thread i on lock n
Release(i, n) ==
    /\ holder' = [holder EXCEPT ![n] = 0]
    /\ nrel' = [nrel EXCEPT ![i] = @ + 1]
    /\ stolen' = (stolen \/ holder[n] # i)

\* a release that is skipped when f raised (no with/finally around f)
SyncExit231_NoReleaseOnRaise(i) ==
    /\ ipc[i] = "exit231"
    /\ IF ires[i] = "raised" THEN UNCHANGED <<holder, nrel, stolen>>
       ELSE Release(i, ilock[i])
    /\ ipc' = [ipc EXCEPT ![i] = "finally240"]
    /\ UNCHANGED <<coordVars, callerVars, loopVars, iop, iname, ilock, iblk,
                   iacq, ires, iout, nacq, obsVars>>

\* leaving the with block: Lock.__exit__ releases and does not swallow
SyncExit231(i) ==
    /\ ipc[i] = "exit231"
    /\ Release(i, ilock[i])
    /\ ipc' = [ipc EXCEPT ![i] = "finally240"]
    /\ UNCHANGED <<coordVars, callerVars, loopVars, iop, iname, ilock, iblk,
                   iacq, ires, iout, nacq, obsVars>>

\* a finally block that releases the lock itself (try/finally cleanup
\* written next to the with statement)
Sync240_ReleaseInFinally(i) ==
    /\ ipc[i] = "finally240"
    /\ Release(i, ilock[i])
    /\ SyncEnd(i, IF iacq[i] = "failed" THEN "LockAcquireFailed"
                  ELSE ires[i])
    /\ UNCHANGED <<coordVars, callerVars, loopVars, iacq, ires, nacq,
                   obsVars>>

\* lines 239-249: the finally block logs, then the pending return value or
\* exception leaves the wrapper
Sync240(i) ==
    /\ ipc[i] = "finally240"
    /\ SyncEnd(i, IF iacq[i] = "failed" THEN "LockAcquireFailed"
                  ELSE ires[i])
    /\ UNCHANGED <<coordVars, callerVars, loopVars, iacq, ires, holder,
                   syncObs, obsVars>>

Synchronized(i) ==
    \/ Sync227(i) \/ Sync116(i) \/ Sync231(i) \/ Sync238(i)
    \/ SyncExit231(i) \/ Sync240(i)

\* ------------------------------------------------------- specifications
\* the coordinator: the caller of start()/stop() and the heartbeat threads
Next ==
    \/ \E c \in Main : Lifecycle(c)
    \/ \E l \in Loops : Heartbeat(l)

Spec == Init /\ [][Next]_vars

\* the coordinator and one thread of guarded calls, which reads
\* self.coordinator while start(), stop() and _reconnect write it; the
\* backoff configuration, which get_lock never reads, is fixed
InitLock == Init /\ base = 1 /\ cap = 1

NextLock ==
    \/ \E c \in Main : Lifecycle(c)
    \/ \E l \in Loops : Heartbeat(l)
    \/ Synchronized(1)

SpecLock == InitLock /\ [][NextLock]_vars

\* concurrent guarded calls on a coordinator whose backend needs no
\* heartbeat: start() and stop() are the only writers of self.coordinator
InitSync == InitLock /\ ~requires_beating

NextSync ==
    \/ \E c \in Main : Lifecycle(c)
    \/ \E i \in Invokers : Synchronized(i)

SpecSync == InitSync /\ [][NextSync]_vars

\* the coordinator with every thread scheduled fairly: a call of start() or
\* stop() that has begun keeps running, and so does a heartbeat thread
StartSteps(c) ==
    Start83(c) \/ Start143(c) \/ Start145(c) \/ Start85(c) \/ Start88(c)
StopSteps(c) ==
    \/ Stop99(c) \/ Stop100(c) \/ Stop101(c)
    \/ Stop103(c) \/ Stop104(c) \/ Stop105(c)

\* start() called from two contexts at once, as cooperative threads that
\* yield at the backend I/O of _start, with the heartbeat threads; no stop()
Starting(c) == Start81(c) \/ StartSteps(c)

NextConc ==
    \/ \E c \in Callers : Starting(c)
    \/ \E l \in Loops : Heartbeat(l)

SpecConc == InitLock /\ [][NextConc]_vars

FairSpec ==
    /\ Init
    /\ [][Next]_vars
    /\ \A c \in Main : WF_vars(StartSteps(c)) /\ WF_vars(StopSteps(c))
    /\ \A l \in Loops : WF_vars(Heartbeat(l))

TypeOK ==
    /\ coordinator \in {NoneH, UnstartedH} \cup Handles
    /\ started \in BOOLEAN
    /\ dead \in 0..MaxStarts
    /\ ev \in {0} \cup Loops
\* =============================================================== claims
Holding(i) == ipc[i] \in {"body238", "exit231"}

\* C1: two guarded calls whose templates resolve to the same name never
\* execute their bodies at the same time, whichever functions they wrap.
C1_MutualExclusion ==
    \A i, j \in Invokers :
        (i # j /\ ipc[i] = "body238" /\ ipc[j] = "body238")
            => iname[i] # iname[j]

\* a call of g waits for the lock while a call of f with the same resolved
\* name executes its body
C1_Witness ==
    \E i, j \in Invokers :
        /\ ipc[i] = "body238" /\ ipc[j] = "with231"
        /\ iname[i] = iname[j] /\ iop[i] # iop[j]
        /\ iblk[j] = "True"

\* C2: a guarded call that acquired its lock holds it until f has ended,
\* has released it when the wrapper has returned, and ends the way f ended:
\* f's return value is returned, f's exception is raised.
C2_ReleaseBeforeReturn ==
    \A i \in Invokers :
        /\ Holding(i) => holder[ilock[i]] = i
        /\ (ipc[i] = "idle" /\ iacq[i] = "acquired") =>
              /\ \A n \in LockNames : holder[n] # i
              /\ ires[i] \in BodyResults
              /\ iout[i] = ires[i]

\* a guarded call whose function raised has finished
C2_Witness ==
    \E i \in Invokers :
        ipc[i] = "idle" /\ iacq[i] = "acquired" /\ iout[i] = "raised"

\* C3: a guarded call whose acquire() failed never runs f and ends with
\* LockAcquireFailed.
C3_NotAcquiredNoBody ==
    \A i \in Invokers :
        iacq[i] = "failed" =>
            /\ ires[i] = "none"
            /\ ipc[i] \in {"finally240", "idle"}
            /\ ipc[i] = "idle" => iout[i] = "LockAcquireFailed"

\* a guarded call has ended with LockAcquireFailed while another one held
\* the lock
C3_Witness ==
    \E i, j \in Invokers :
        /\ ipc[i] = "idle" /\ iout[i] = "LockAcquireFailed"
        /\ iacq[i] = "failed" /\ Holding(j)

\* C10: distinct lock names get distinct backend lock names, so a guarded
\* call that holds the lock of one name does not hold the lock another
\* guarded call with a different name is about to acquire.
C10_DistinctNamesIndependent ==
    /\ \A n1, n2 \in ResolvedNames : n1 # n2 => LockName(n1) # LockName(n2)
    /\ \A i, j \in Invokers :
        (Holding(i) /\ ipc[j] = "with231" /\ iname[i] # iname[j])
            => (ilock[i] # ilock[j] /\ holder[ilock[j]] # i)

\* two guarded calls with different names execute their bodies together
C10_Witness ==
    \E i, j \in Invokers :
        ipc[i] = "body238" /\ ipc[j] = "body238" /\ iname[i] # iname[j]
LoopAlive(l) == lpc[l] \notin {"none", "exited", "crashed"}
Quiescent == \A c \in Callers : cpc[c] = "idle"
InReconnect(l) == lpc[l] \in {"rc143", "rc145", "rc170", "rc174"}

\* C4: when a stop() that found the coordinator started has returned, every
\* heartbeat thread has ended, and no heartbeat is sent after that return.
C4_StopAfterLoopExit ==
    /\ stopReturned => \A l \in Loops : lpc[l] \in {"none", "exited"}
    /\ ~lateSignal

\* stop() has returned on a coordinator whose heartbeat thread was running
C4_Witness ==
    /\ stopReturned /\ requires_beating
    /\ \E c \in Callers : cpc[c] = "idle" /\ cres[c] = "stop_ok"
    /\ \E l \in Loops : lpc[l] = "exited"

\* C5: a stop() that found the coordinator started eventually returns,
\* whatever the heartbeat thread is doing (under fair scheduling).
C5_StopTerminates ==
    \A c \in Callers : (cpc[c] = "stop99") ~> (cpc[c] = "idle")

\* C6: with no start()/stop() in progress, get_lock raises
\* LockCreationFailed whenever the coordinator is not started, and returns
\* a backend lock whenever it is started.
C6_GetLockNeedsConnected ==
    [][\A i \in Invokers :
        /\ (Quiescent /\ ~started /\ Sync227(i))
              => (ipc'[i] = "idle" /\ iout'[i] = "LockCreationFailed")
        /\ (Quiescent /\ started /\ Sync227(i))
              => ipc'[i] = "getlock116"
        /\ (Quiescent /\ started /\ Sync116(i))
              => ipc'[i] = "with231"]_vars

\* C7: start() on a started coordinator returns at once and changes no
\* field of the coordinator: no connect, no new Event, no new thread.
C7_StartIdempotent ==
    [][\A c \in Callers :
        (started /\ Start81(c)) =>
            /\ cpc'[c] = "idle"
            /\ cres'[c] = "start_noop"
            /\ UNCHANGED <<coordVars, loopVars>>]_vars

\* start() has returned without doing anything while the heartbeat runs
C7_Witness ==
    /\ started
    /\ \E c \in Callers : cpc[c] = "idle" /\ cres[c] = "start_noop"
    /\ \E l \in Loops : LoopAlive(l) /\ ev = l

\* C8: once the backend has raised ToozError inside start(), start() has
\* ended with that error (no further attempt), the coordinator is not
\* started and no heartbeat thread was launched.
C8_StartFailureRaised ==
    \A c \in Callers :
        cfail[c] =>
            /\ cpc[c] = "idle"
            /\ cres[c] = "start_ToozError"
            /\ ~started
            /\ ev = 0
            /\ \A l \in Loops : ~LoopAlive(l)

\* start() has failed at coordinator.start()
C8_Witness ==
    \E c \in Callers : cfail[c] /\ coordinator = UnstartedH

\* C9: every backoff value _reconnect computes lies between base and cap
\* and is at most three times the previous value, which starts at base.
C9_BackoffBounds ==
    [][\A l \in Loops :
        /\ (lpc[l] # "rc143" /\ lpc'[l] = "rc143" /\ lpc[l] # "rc174")
              => backoff'[l] = base
        /\ (lpc[l] = "rc170" /\ lpc'[l] = "rc174") =>
              /\ base <= backoff'[l]
              /\ backoff'[l] <= cap
              /\ backoff'[l] <= 3 * backoff[l]]_vars

\* the backoff has grown past three times base and reached the cap
C9_Witness ==
    \E l \in Loops :
        lpc[l] = "rc174" /\ backoff[l] = cap /\ cap > 3 * base
\* C11: with no start()/stop() in progress, the coordinator is started if
\* and only if self.coordinator is not None; in particular it is None after
\* a start() that failed and after stop().
C11_StartedIffHandle ==
    Quiescent => (started <=> coordinator # NoneH)

\* C13: the heartbeat thread never calls heartbeat() on a backend object
\* that stop() has already stopped (line 99).
C13_NoSignalAfterDisconnect ==
    [][\A l \in Loops :
        (lpc[l] = "hb149call" /\ lpc'[l] # "hb149call")
            => ~(lh[l] \in Handles /\ hstate[lh[l]] = "stopped")]_vars

\* C18: while a heartbeat thread is inside _reconnect, every get_lock call
\* raises LockCreationFailed.
C18_GetLockFailsInReconnect ==
    [][\A i \in Invokers :
        ((\E l \in Loops : InReconnect(l)) /\ Sync227(i))
            => (ipc'[i] = "idle" /\ iout'[i] = "LockCreationFailed")]_vars

\* C19: when stop() has returned, no backend object this coordinator
\* connected is still started.
C19_NoLeakedConnection ==
    stopReturned => \A h \in Handles : hstate[h] # "started"
\* C12: once the wait of line 174 has returned with the shutdown flag set,
\* _reconnect makes no further connect attempt.
C12_ReconnectAbortsOnShutdown ==
    [][\A l \in Loops :
        woken[l] => ~(lpc[l] = "rc143" /\ lpc'[l] # "rc143")]_vars

\* C15: a heartbeat that raises ToozError leaves the thread running, at the
\* wait of line 138 before its next heartbeat; whatever heartbeat() does,
\* the thread goes on; a thread ends only at line 132, with the shutdown
\* flag set or self.coordinator None.
C15_LoopSurvivesHeartbeatError ==
    [][\A l \in Loops :
        /\ (~hbFailed[l] /\ hbFailed'[l]) => lpc'[l] = "wait138"
        /\ (lpc[l] = "hb149call" /\ lpc'[l] # "hb149call")
              => lpc'[l] \in {"wait138", "rc143"}
        /\ (LoopAlive(l) /\ ~LoopAlive(l)')
              => /\ lpc[l] = "while132" /\ lpc'[l] = "exited"
                 /\ (evSet[dead] \/ coordinator = NoneH)]_vars

\* after a heartbeat raised ToozError the thread is about to send the next
C15_Witness ==
    \E l \in Loops :
        hbFailed[l] /\ lpc[l] = "hb149call" /\ ~evSet[dead]

\* the shutdown flag that was current when thread l reconnected is set
ShutdownRequested(l) == resume[l].d # 0 /\ evSet[resume[l].d]

\* C16 as stated: once _reconnect has connected a new backend object while
\* the shutdown flag is not set, the thread eventually sends a heartbeat
\* on that object.
C16_ResumesRegardless ==
    \A l \in Loops :
        (resume[l].h # 0 /\ ~resume[l].sent /\ ~ShutdownRequested(l))
            ~> resume[l].sent

\* C16, amended: after _reconnect has connected a new backend object, the
\* thread eventually sends a heartbeat on that object, unless the shutdown
\* flag is set before it does (under fair scheduling).
C16_LivenessResumes ==
    \A l \in Loops :
        (resume[l].h # 0 /\ ~resume[l].sent)
            ~> (resume[l].sent \/ ShutdownRequested(l))

\* a heartbeat was sent on the object _reconnect connected
C16_Witness ==
    \E l \in Loops :
        /\ resume[l].sent /\ resume[l].h = coordinator
        /\ hstate[resume[l].h] = "started" /\ ~evSet[dead]
\* C17: with no start()/stop() in progress, a heartbeat thread is running
\* exactly when the coordinator is started and the backend requires
\* beating; for a backend that does not, no thread is ever spawned, no
\* heartbeat is sent and stop() has no thread to wait for.
C17_LoopIffStartedAndBeating ==
    /\ Quiescent => ((\E l \in Loops : LoopAlive(l))
                        <=> (started /\ requires_beating))
    /\ ~requires_beating => (ev = 0 /\ \A l \in Loops : lpc[l] = "none")

\* start() then stop() have both returned on a backend without beating
C17_Witness ==
    /\ Quiescent /\ stopReturned /\ ~requires_beating
    /\ \E h \in Handles : hstate[h] = "stopped"
\* C20: a guarded call makes at most one acquire() and at most one
\* release(); a call whose get_lock or acquire() failed makes no release();
\* no release() is ever made on a lock the releasing call does not hold.
C20_ReleasesOnlyAcquired ==
    /\ ~stolen
    /\ \A i \in Invokers :
        /\ nacq[i] <= 1 /\ nrel[i] <= 1
        /\ iacq[i] # "acquired" => nrel[i] = 0
        /\ iout[i] \in {"LockCreationFailed", "AttributeError"}
              => (nacq[i] = 0 /\ nrel[i] = 0)

\* a call has ended with LockAcquireFailed after one acquire() and no
\* release(), and the lock of another call is still held by that call
C20_Witness ==
    \E i, j \in Invokers :
        /\ i # j /\ ipc[i] = "idle" /\ iout[i] = "LockAcquireFailed"
        /\ nacq[i] = 1 /\ nrel[i] = 0
        /\ ipc[j] = "body238" /\ holder[ilock[j]] = j
\* C14: at most one heartbeat thread exists at any time, also when start()
\* is called from two contexts at once.
C14_AtMostOneLoop ==
    Cardinality({l \in Loops : LoopAlive(l)}) <= 1
====
